---------------------------- MODULE Spec2Model ----------------------------
(***************************************************************************)
(* Model of the ledger-to-timeseries PnL engine of investment_tracker_app  *)
(* (src/mutual_funds.py): Trasaction, TrasactionHistory, Holding and       *)
(* Portfolio; of the entry point create_portfolio (src/app.py) and of the  *)
(* report engine (src/plots_and_summary.py).                               *)
(*                                                                         *)
(* Dates are day numbers (the code parses "%Y-%m-%d" strings to datetime   *)
(* and only compares them), units and NAVs are integers, and every number  *)
(* a method returns is an exact fraction [num, den]; den = 0 encodes the   *)
(* IEEE results of a float division by zero (nan, +inf, -inf).             *)
(***************************************************************************)
EXTENDS Integers, Sequences, FiniteSets, TLC

VARIABLES
    ledger,     \* a stand-alone TrasactionHistory: transaction_history_og, max_date
    ret,        \* what the last call on the ledger returned or raised
    holdings,   \* Portfolio.holdings: the list of Holding objects
    nav_feed,   \* the NAV series the feed serves for each scheme code
    pnl,        \* Portfolio.pnl: the cached per-scheme table
    out,        \* what the last call on the portfolio or a holding returned
    app,        \* the app around create_portfolio: the ledger source, the
                \* st.cache_data cache and what the last script run left
    summary,    \* the last call of the report engine: its input and result
    fleet       \* two Portfolio objects of separate users, each with the
                \* position of its get_pnl_timeseries() call

ledgerVars == <<ledger, ret>>
portfolioVars == <<holdings, nav_feed, pnl, out>>
reportVars == <<app, summary>>
fleetVars == <<fleet>>
vars == <<ledger, ret, holdings, nav_feed, pnl, out, app, summary, fleet>>

----------------------------------------------------------------------------
\* Bounds of the model
MaxLen == 2          \* transactions a stand-alone ledger can hold
MaxLegs == 2         \* purchase and sell legs of a whole portfolio

Dates == {1, 2}      \* transaction dates and cutoffs, as day numbers
UnitValues == {1, 2}
NavValues == {1, 2}
Sides == {"purchase", "sell", "dividend"}   \* "dividend": a side the code rejects

\* Python's None, as the value of max_date
None == 0
Cutoffs == Dates \cup {None}

----------------------------------------------------------------------------
\* Numbers

Abs(n) == IF n < 0 THEN -n ELSE n

RECURSIVE Gcd(_, _)
Gcd(a, b) == IF b = 0 THEN a ELSE Gcd(b, a % b)

\* a / b as numpy computes a true division of two scalars: no exception,
\* nan for 0/0 and a signed infinity for x/0
Div(a, b) ==
    IF b = 0
    THEN [num |-> IF a > 0 THEN 1 ELSE IF a < 0 THEN -1 ELSE 0, den |-> 0]
    ELSE LET g == Gcd(Abs(a), Abs(b))
             s == IF b < 0 THEN -1 ELSE 1
         IN  [num |-> s * (a \div g), den |-> s * (b \div g)]

Num(n) == [num |-> n, den |-> 1]
NaN == [num |-> 0, den |-> 0]

RECURSIVE np_sum(_)
np_sum(arr) == IF arr = <<>> THEN 0 ELSE Head(arr) + np_sum(Tail(arr))

np_mul(a, b) == [i \in 1..Len(a) |-> a[i] * b[i]]

----------------------------------------------------------------------------
\* Trasaction, Purchase, Sell

Purchase(date, units, average_nav) ==
    [date_ |-> date, units |-> units, average_nav |-> average_nav,
     transaction_type |-> "purchase"]

Sell(date, units, average_nav) ==
    [date_ |-> date, units |-> units, average_nav |-> average_nav,
     transaction_type |-> "sell"]

nav_with_sign(x) ==
    IF x.transaction_type = "purchase" THEN x.average_nav ELSE -x.average_nav

units_with_sign(x) ==
    IF x.transaction_type = "purchase" THEN x.units ELSE -x.units

----------------------------------------------------------------------------
\* TrasactionHistory

TrasactionHistory == [transaction_history_og |-> <<>>, max_date |-> None]

\* mutant: the cutoff day itself is filtered out (< for <=)
transaction_history_strict(self) ==
    IF self.max_date = None
    THEN self.transaction_history_og
    ELSE SelectSeq(self.transaction_history_og,
                   LAMBDA x : x.date_ < self.max_date)

\* the property transaction_history: the list itself when max_date is None,
\* otherwise a new list of the transactions dated on or before max_date
transaction_history(self) ==
    IF self.max_date = None
    THEN self.transaction_history_og
    ELSE SelectSeq(self.transaction_history_og,
                   LAMBDA x : x.date_ <= self.max_date)

len(self) == Len(transaction_history(self))

getitem(self, key) == transaction_history(self)[key]

unit_array(self) ==
    [i \in 1..len(self) |-> transaction_history(self)[i].units]

units_array_with_sign(self) ==
    [i \in 1..len(self) |-> units_with_sign(transaction_history(self)[i])]

nav_array_with_sign(self) ==
    [i \in 1..len(self) |-> nav_with_sign(transaction_history(self)[i])]

\* Every method returns [self |-> the object after the call, value |-> what
\* the call returns, raised |-> whether it raised]

\* mutant: an omitted max_date keeps the cutoff of the call before
total_units_sticky(self, max_date) ==
    LET s == IF max_date = None THEN self
             ELSE [self EXCEPT !.max_date = max_date]
    IN  [self |-> s, value |-> Num(np_sum(units_array_with_sign(s))),
         raised |-> FALSE]

total_units(self, max_date) ==
    LET s == [self EXCEPT !.max_date = max_date]
    IN  [self |-> s, value |-> Num(np_sum(units_array_with_sign(s))),
         raised |-> FALSE]

\* mutant: divides by the units bought and sold, not by the units held
average_nav_unsigned(self, max_date) ==
    LET s == [self EXCEPT !.max_date = max_date]
        units == unit_array(s)
        nav == nav_array_with_sign(s)
        units_sum == np_sum(units)
    IN  [self |-> s,
         value |-> IF units_sum = 0 THEN Num(0)
                   ELSE Div(np_sum(np_mul(units, nav)), units_sum),
         raised |-> FALSE]

average_nav(self, max_date) ==
    LET s == [self EXCEPT !.max_date = max_date]
        units == unit_array(s)
        units_sign == units_array_with_sign(s)
        nav == nav_array_with_sign(s)
        units_sum == np_sum(units_sign)
    IN  [self |-> s,
         value |-> IF units_sum = 0 THEN Num(0)
                   ELSE Div(np_sum(np_mul(units, nav)), units_sum),
         raised |-> FALSE]

transactions_pnl(self, current_nav, percentage, max_date) ==
    LET s == [self EXCEPT !.max_date = max_date]
        invested == np_sum(np_mul(unit_array(s), nav_array_with_sign(s)))
        current == np_sum(units_array_with_sign(s)) * current_nav
        pnl_ == current - invested
    IN  [self |-> s,
         value |-> IF percentage THEN Div(pnl_ * 100, invested) ELSE Num(pnl_),
         raised |-> FALSE]

net_transaction_value(self, max_date) ==
    LET s == [self EXCEPT !.max_date = max_date]
    IN  [self |-> s,
         value |-> IF np_sum(nav_array_with_sign(s)) = 0 THEN Num(0)
                   ELSE Num(np_sum(np_mul(unit_array(s), nav_array_with_sign(s)))),
         raised |-> FALSE]

\* mutant: any side that is not purchase is taken as a sell
add_transaction_else_sell(self, date, units, nav, transaction_type) ==
    LET transaction == IF transaction_type = "purchase"
                       THEN Purchase(date, units, nav)
                       ELSE Sell(date, units, nav)
    IN  [self |-> IF self.max_date = None
                  THEN [self EXCEPT !.transaction_history_og =
                                        Append(@, transaction)]
                  ELSE self,
         value |-> Num(0), raised |-> FALSE]

\* add_transaction appends to the list the property returns: the ledger's own
\* list when max_date is None, a temporary filtered list otherwise
add_transaction(self, date, units, nav, transaction_type) ==
    IF transaction_type \notin {"purchase", "sell"}
    THEN [self |-> self, value |-> Num(0), raised |-> TRUE]
    ELSE LET transaction == IF transaction_type = "purchase"
                            THEN Purchase(date, units, nav)
                            ELSE Sell(date, units, nav)
         IN  [self |-> IF self.max_date = None
                       THEN [self EXCEPT !.transaction_history_og =
                                             Append(@, transaction)]
                       ELSE self,
              value |-> Num(0), raised |-> FALSE]

\* sorted(..., key=date_, reverse=reverse): a stable sort, also when reversed
RECURSIVE Insert(_, _, _)
Insert(x, sorted, reverse) ==
    IF sorted = <<>> THEN <<x>>
    ELSE IF (IF reverse THEN Head(sorted).date_ < x.date_
                        ELSE Head(sorted).date_ > x.date_)
         THEN <<x>> \o sorted
         ELSE <<Head(sorted)>> \o Insert(x, Tail(sorted), reverse)

RECURSIVE Sorted(_, _)
Sorted(list, reverse) ==
    IF list = <<>> THEN <<>>
    ELSE Insert(list[Len(list)], Sorted(SubSeq(list, 1, Len(list) - 1), reverse),
                reverse)

sort_transactions(self, reverse) ==
    [self |-> [self EXCEPT !.transaction_history_og = Sorted(@, reverse)],
     value |-> Num(0), raised |-> FALSE]

\* __add__: a new history holding both unfiltered lists, with no cutoff
add(self, other) ==
    [transaction_history_og |->
         self.transaction_history_og \o other.transaction_history_og,
     max_date |-> None]

\* create_transcations_from_dict: add_transaction for every dictionary in turn
RECURSIVE create_transcations_from_dict(_, _)
create_transcations_from_dict(self, transactions) ==
    IF transactions = <<>> THEN self
    ELSE LET t == Head(transactions)
         IN  create_transcations_from_dict(
                 add_transaction(self, t.date, t.units, t.average_nav,
                                 t.transaction_type).self,
                 Tail(transactions))

----------------------------------------------------------------------------
\* Holding

\* create_transcations_dict: the legs of one side ([date, units, average_nav])
\* as transaction dictionaries of that side
create_transcations_dict(transactions, transaction_type) ==
    [i \in 1..Len(transactions) |->
        [date |-> transactions[i].date, units |-> transactions[i].units,
         average_nav |-> transactions[i].average_nav,
         transaction_type |-> transaction_type]]

create_transactions(self, purchase_transactions, sell_transactions, max_date) ==
    LET purchases == create_transcations_dict(purchase_transactions, "purchase")
        sells == create_transcations_dict(sell_transactions, "sell")
        purchase_history ==
            create_transcations_from_dict(self.purchase_history, purchases)
        sell_history == create_transcations_from_dict(self.sell_history, sells)
        all_transactions ==
            sort_transactions(add(purchase_history, sell_history), TRUE).self
    IN  [self EXCEPT
            !.purchase_history = average_nav(purchase_history, max_date).self,
            !.sell_history = average_nav(sell_history, max_date).self,
            !.all_transactions = all_transactions]

\* Holding(transcation_dict): __init__ and its create_transactions call
Holding(transcation_dict) ==
    create_transactions(
        [scheme_code |-> transcation_dict.scheme_code,
         purchase_history |-> TrasactionHistory,
         sell_history |-> TrasactionHistory,
         all_transactions |-> TrasactionHistory],
        transcation_dict.purchase_history, transcation_dict.sale_history, None)

Holding_invested_amount(self, max_date) ==
    LET r == net_transaction_value(self.all_transactions, max_date)
    IN  [self |-> [self EXCEPT !.all_transactions = r.self], value |-> r.value]

Holding_get_total_units(self, max_date) ==
    LET r == total_units(self.all_transactions, max_date)
    IN  [self |-> [self EXCEPT !.all_transactions = r.self], value |-> r.value]

\* [self.get_total_units(x) for x in dates] and [self.invested_amount(t) for
\* t in dates]: the calls are made in turn on the same holding, each leaving
\* its cutoff behind; [self after the calls, value: the list]
Cons(v, rest) == [self |-> rest.self, value |-> <<v>> \o rest.value]

RECURSIVE ListOfTotalUnits(_, _)
TotalUnitsThen(r, dates) == Cons(r.value.num, ListOfTotalUnits(r.self, dates))
ListOfTotalUnits(self, dates) ==
    IF dates = <<>> THEN [self |-> self, value |-> <<>>]
    ELSE TotalUnitsThen(Holding_get_total_units(self, Head(dates)), Tail(dates))

RECURSIVE ListOfInvestedAmount(_, _)
InvestedAmountThen(r, dates) ==
    Cons(r.value.num, ListOfInvestedAmount(r.self, dates))
ListOfInvestedAmount(self, dates) ==
    IF dates = <<>> THEN [self |-> self, value |-> <<>>]
    ELSE InvestedAmountThen(Holding_invested_amount(self, Head(dates)),
                            Tail(dates))

\* DataFrame.sort_values("date"), ascending
RECURSIVE InsertByDate(_, _)
InsertByDate(row, sorted) ==
    IF sorted = <<>> THEN <<row>>
    ELSE IF Head(sorted).date > row.date THEN <<row>> \o sorted
         ELSE <<Head(sorted)>> \o InsertByDate(row, Tail(sorted))

RECURSIVE sort_values(_)
sort_values(df) ==
    IF df = <<>> THEN <<>>
    ELSE InsertByDate(df[Len(df)], sort_values(SubSeq(df, 1, Len(df) - 1)))

Max(S) == CHOOSE x \in S : \A y \in S : y <= x

\* pd.merge_asof(nav_df, transcation_df, on="date"): every row of nav_df with
\* the last row of transcation_df dated on or before it; matched is FALSE
\* where there is none (the columns are NaN)
merge_asof(nav_df, transcation_df) ==
    [i \in 1..Len(nav_df) |->
        LET before == {j \in 1..Len(transcation_df) :
                          transcation_df[j].date <= nav_df[i].date}
        IN  IF before = {}
            THEN [date |-> nav_df[i].date, nav |-> nav_df[i].nav,
                  matched |-> FALSE, total_units |-> 0, total_invested |-> 0]
            ELSE [date |-> nav_df[i].date, nav |-> nav_df[i].nav,
                  matched |-> TRUE,
                  total_units |-> transcation_df[Max(before)].total_units,
                  total_invested |-> transcation_df[Max(before)].total_invested]]

clip(x) == IF x < 0 THEN 0 ELSE x

fillna(v) == IF v = NaN THEN Num(0) ELSE v

\* mutant: pnl with the sign turned round
PnlRow_swapped(m) ==
    LET total_invested == clip(m.total_invested)
        current_value == m.total_units * m.nav
        pnl_ == total_invested - current_value
    IN  [date |-> m.date, nav |-> m.nav, total_units |-> m.total_units,
         total_invested |-> total_invested, current_value |-> current_value,
         pnl |-> pnl_,
         pnl_percentage |-> fillna(Div(pnl_ * 100, total_invested))]

\* the rows a holding emits, from the merged rows
PnlRow(m) ==
    LET total_invested == clip(m.total_invested)
        current_value == m.total_units * m.nav
        pnl_ == current_value - total_invested
    IN  [date |-> m.date, nav |-> m.nav, total_units |-> m.total_units,
         total_invested |-> total_invested, current_value |-> current_value,
         pnl |-> pnl_,
         pnl_percentage |-> fillna(Div(pnl_ * 100, total_invested))]

\* mutant: the invested amount is clipped but the row is kept
KeepRow_clip_only(m) == m.matched

KeepRow(m) == m.matched /\ clip(m.total_invested) > 0

\* the transaction table: date, total_units, total_invested, one row for
\* every transaction date, sorted by date
transcation_df(transaction_dates, total_units_, transcation_values) ==
    sort_values([i \in 1..Len(transaction_dates) |->
        [date |-> transaction_dates[i],
         total_units |-> total_units_[i],
         total_invested |-> transcation_values[i]]])

EmitRows(merged) == [i \in 1..Len(merged) |-> PnlRow(merged[i])]

\* lines 449-470, on the sorted NAV table and the two lists
MergeAndEmit(nav_df, transaction_dates, units, values) ==
    [self |-> values.self,
     value |-> EmitRows(SelectSeq(
                   merge_asof(nav_df,
                              transcation_df(transaction_dates, units.value,
                                             values.value)),
                   KeepRow))]

ValuesThenMerge(nav_df, transaction_dates, units) ==
    MergeAndEmit(nav_df, transaction_dates, units,
                 ListOfInvestedAmount(units.self, transaction_dates))

UnitsThenValues(self, nav_df, transaction_dates) ==
    ValuesThenMerge(nav_df, transaction_dates,
                    ListOfTotalUnits(self, transaction_dates))

DatesOf(transactions) ==
    [i \in 1..Len(transactions) |-> transactions[i].date_]

\* Holding.get_pnl_timeseries(nav_data): [self after the call, value: the rows]
Holding_get_pnl_timeseries(self, nav_data) ==
    UnitsThenValues(self, sort_values(nav_data),
                    DatesOf(transaction_history(self.all_transactions)))

----------------------------------------------------------------------------
\* Portfolio

\* create_holdings: one Holding for every scheme record, in order
create_holdings(transcations) ==
    [i \in 1..Len(transcations) |-> Holding(transcations[i])]

\* pnl["scheme_code"] = holding.scheme_code
TagRows(rows, scheme_code) ==
    [i \in 1..Len(rows) |->
        [date |-> rows[i].date, nav |-> rows[i].nav,
         total_units |-> rows[i].total_units,
         total_invested |-> rows[i].total_invested,
         current_value |-> rows[i].current_value,
         pnl |-> rows[i].pnl, pnl_percentage |-> rows[i].pnl_percentage,
         scheme_code |-> scheme_code]]

\* the loop of get_pnl_timeseries over self.holdings: every holding's own
\* timeseries on the NAV series fetched for its scheme code, its rows tagged
\* with the scheme code; [holdings after the calls, pnls: one table each]
RECURSIVE HoldingTables(_, _)
TableThen(r, scheme_code, rest) ==
    [holdings |-> <<r.self>> \o rest.holdings,
     pnls |-> <<TagRows(r.value, scheme_code)>> \o rest.pnls]
HoldingTables(hs, feed) ==
    IF hs = <<>> THEN [holdings |-> <<>>, pnls |-> <<>>]
    ELSE TableThen(Holding_get_pnl_timeseries(Head(hs),
                                              feed[Head(hs).scheme_code]),
                   Head(hs).scheme_code, HoldingTables(Tail(hs), feed))

\* pd.concat(pnls, ignore_index=True)
RECURSIVE concat(_)
concat(pnls) == IF pnls = <<>> THEN <<>> ELSE Head(pnls) \o concat(Tail(pnls))

\* the dates of a table, ascending, each once: the groups of groupby("date")
RECURSIVE Ascending(_)
Ascending(S) ==
    IF S = {} THEN <<>>
    ELSE LET m == CHOOSE x \in S : \A y \in S : x <= y
         IN  <<m>> \o Ascending(S \ {m})

GroupRows(table, date) == SelectSeq(table, LAMBDA r : r.date = date)

\* mutant: the aggregation keeps the first row of a date instead of the sum
Aggregate_first(date, g) ==
    [date |-> date,
     total_invested |-> g[1].total_invested,
     current_value |-> g[1].current_value,
     scheme_code |-> [i \in 1..Len(g) |-> g[i].scheme_code]]

\* one group of groupby("date").aggregate(sum, sum, list of scheme codes)
Aggregate(date, g) ==
    [date |-> date,
     total_invested |-> np_sum([i \in 1..Len(g) |-> g[i].total_invested]),
     current_value |-> np_sum([i \in 1..Len(g) |-> g[i].current_value]),
     scheme_code |-> [i \in 1..Len(g) |-> g[i].scheme_code]]

GroupsOf(table, dates) ==
    [k \in 1..Len(dates) |-> Aggregate(dates[k], GroupRows(table, dates[k]))]

\* groupby("date").aggregate(...).reset_index(): the groups, ascending by date
groupby_date(table) ==
    GroupsOf(table, Ascending({table[i].date : i \in 1..Len(table)}))

PortfolioRow(g) ==
    [date |-> g.date, total_invested |-> g.total_invested,
     current_value |-> g.current_value, scheme_code |-> g.scheme_code,
     pnl |-> g.current_value - g.total_invested,
     pnl_percentage |->
         Div((g.current_value - g.total_invested) * 100, g.total_invested)]

KeepPortfolioRow(g) == g.total_invested > 0

EmitPortfolioRows(grouped) ==
    [i \in 1..Len(grouped) |-> PortfolioRow(grouped[i])]

\* mutant: the new rows are appended to the cached table
ConcatAndGroup_append(t, cache, all) ==
    IF t.pnls = <<>>
    THEN [holdings |-> t.holdings, pnl |-> cache, value |-> <<>>,
          raised |-> TRUE]
    ELSE [holdings |-> t.holdings,
          pnl |-> [set |-> TRUE, rows |-> cache.rows \o all],
          value |-> EmitPortfolioRows(SelectSeq(groupby_date(all),
                                                KeepPortfolioRow)),
          raised |-> FALSE]

\* lines 566-583, on the tables of the holdings
ConcatAndGroup(t, cache, all) ==
    IF t.pnls = <<>>
    THEN [holdings |-> t.holdings, pnl |-> cache, value |-> <<>>,
          raised |-> TRUE]
    ELSE [holdings |-> t.holdings,
          pnl |-> [set |-> TRUE, rows |-> all],
          value |-> EmitPortfolioRows(SelectSeq(groupby_date(all),
                                                KeepPortfolioRow)),
          raised |-> FALSE]

TablesThenConcat(t, cache) == ConcatAndGroup(t, cache, concat(t.pnls))

\* Portfolio.get_pnl_timeseries: [holdings, pnl (the cache), value (the table
\* returned), raised]. pd.concat raises ValueError on an empty list, before
\* the cache is assigned.
Portfolio_get_pnl_timeseries(hs, cache, feed) ==
    TablesThenConcat(HoldingTables(hs, feed), cache)

----------------------------------------------------------------------------
\* The stand-alone ledger: one TrasactionHistory and the calls made on it

\* the arguments a call was made with; 0 and "" where it has no such argument
Args(max_date, current_nav, side) ==
    [max_date |-> max_date, current_nav |-> current_nav, side |-> side]

\* ret.after_cutoff: whether the ledger held a cutoff when the call was made
NoRet == [op |-> "init", args |-> Args(None, 0, ""), after_cutoff |-> FALSE,
          value |-> Num(0), raised |-> FALSE]
NoPnl == [set |-> FALSE, rows |-> <<>>]
NoOut == [op |-> "init", raised |-> FALSE, table |-> <<>>]
NoApp == [db |-> <<>>, cache |-> {}, run |-> [outcome |-> "init"]]
NoSummary == [op |-> "init"]
NoFleet == <<>>

Call(op, args, r) ==
    /\ ledger' = r.self
    /\ ret' = [op |-> op, args |-> args, after_cutoff |-> ledger.max_date # None,
               value |-> r.value, raised |-> r.raised]
    /\ UNCHANGED <<portfolioVars, reportVars, fleetVars>>

Init ==
    /\ ledger = TrasactionHistory
    /\ ret = NoRet
    /\ holdings = <<>>
    /\ nav_feed = <<>>
    /\ pnl = NoPnl
    /\ out = NoOut
    /\ app = NoApp
    /\ summary = NoSummary
    /\ fleet = NoFleet

AddTransaction ==
    \E date \in Dates, units \in UnitValues, nav \in NavValues, side \in Sides :
        /\ Len(ledger.transaction_history_og) < MaxLen
        /\ Call("add_transaction", Args(None, 0, side),
                add_transaction(ledger, date, units, nav, side))

TotalUnits ==
    \E max_date \in Cutoffs :
        Call("total_units", Args(max_date, 0, ""), total_units(ledger, max_date))

AverageNav ==
    \E max_date \in Cutoffs :
        Call("average_nav", Args(max_date, 0, ""), average_nav(ledger, max_date))

NetTransactionValue ==
    \E max_date \in Cutoffs :
        Call("net_transaction_value", Args(max_date, 0, ""),
             net_transaction_value(ledger, max_date))

TransactionsPnl ==
    \E max_date \in Cutoffs, current_nav \in NavValues, percentage \in BOOLEAN :
        Call(IF percentage THEN "transactions_pnl_percentage" ELSE "transactions_pnl",
             Args(max_date, current_nav, ""),
             transactions_pnl(ledger, current_nav, percentage, max_date))

SortTransactions ==
    \E reverse \in BOOLEAN :
        Call("sort_transactions", Args(None, 0, ""),
             sort_transactions(ledger, reverse))

Next ==
    \/ AddTransaction
    \/ TotalUnits
    \/ AverageNav
    \/ NetTransactionValue
    \/ TransactionsPnl
    \/ SortTransactions

Spec == Init /\ [][Next]_vars

----------------------------------------------------------------------------
\* The portfolio: a Portfolio built from the scheme records of one user, the
\* NAV feed, and the calls made on the portfolio and on its holdings

SchemeCodes == <<101, 102>>

Legs == [date : Dates, units : UnitValues, average_nav : NavValues]

LegLists(n) == [1..n -> Legs]

\* the scheme records of code with n legs in all
SchemeRecords(code, n) ==
    UNION {[scheme_code : {code}, purchase_history : LegLists(p),
            sale_history : LegLists(n - p)] : p \in 0..n}

\* the lists of scheme records a user can have: one record for each of the
\* first k scheme codes, at most MaxLegs legs in all
Transcations ==
    {<<>>}
    \cup UNION {{<<a>> : a \in SchemeRecords(SchemeCodes[1], n)} : n \in 0..MaxLegs}
    \cup UNION {{<<a, b>> : a \in SchemeRecords(SchemeCodes[1], n[1]),
                            b \in SchemeRecords(SchemeCodes[2], n[2])} :
                n \in {m \in (0..MaxLegs) \X (0..MaxLegs) : m[1] + m[2] <= MaxLegs}}

\* the NAV series of the feed: [date, nav] entries, latest first as the API
\* serves them
NavSeries ==
    { <<[date |-> 2, nav |-> 2], [date |-> 1, nav |-> 1]>>,
      <<[date |-> 2, nav |-> 1]>> }

Feeds(n) == [{SchemeCodes[i] : i \in 1..n} -> NavSeries]

PInit ==
    /\ ledger = TrasactionHistory
    /\ ret = NoRet
    /\ \E transcations \in Transcations :
           /\ holdings = create_holdings(transcations)
           /\ nav_feed \in Feeds(Len(transcations))
    /\ pnl = NoPnl
    /\ out = NoOut
    /\ app = NoApp
    /\ summary = NoSummary
    /\ fleet = NoFleet

PortfolioCall(op, r) ==
    /\ holdings' = r.holdings
    /\ pnl' = r.pnl
    /\ out' = [op |-> op, raised |-> r.raised, table |-> r.value]
    /\ UNCHANGED <<nav_feed, ledgerVars, reportVars, fleetVars>>

\* portfolio.get_pnl_timeseries()
GetPnlTimeseries ==
    PortfolioCall("Portfolio.get_pnl_timeseries",
                  Portfolio_get_pnl_timeseries(holdings, pnl, nav_feed))

PNext ==
    \/ GetPnlTimeseries

SpecPortfolio == PInit /\ [][PNext]_vars

----------------------------------------------------------------------------
\* What the claims speak of, stated on the stored transactions themselves

\* the transactions of a list dated on or before asOf (all of them for None)
InScope(og, asOf) == {i \in 1..Len(og) : asOf = None \/ og[i].date_ <= asOf}

RECURSIVE SumOver(_, _)
SumOver(f, S) ==
    IF S = {} THEN 0
    ELSE LET i == CHOOSE x \in S : TRUE IN f[i] + SumOver(f, S \ {i})

\* sum of +units for a purchase, -units for a sell
SignedUnitsUpTo(og, asOf) ==
    SumOver([i \in 1..Len(og) |->
                IF og[i].transaction_type = "purchase" THEN og[i].units
                ELSE -og[i].units],
            InScope(og, asOf))

\* sum of units * signed_price
CostUpTo(og, asOf) ==
    SumOver([i \in 1..Len(og) |->
                IF og[i].transaction_type = "purchase"
                THEN og[i].units * og[i].average_nav
                ELSE -(og[i].units * og[i].average_nav)],
            InScope(og, asOf))

\* sum of the signed prices
SignedNavUpTo(og, asOf) ==
    SumOver([i \in 1..Len(og) |->
                IF og[i].transaction_type = "purchase" THEN og[i].average_nav
                ELSE -og[i].average_nav],
            InScope(og, asOf))

AggregateOps == {"total_units", "average_nav", "net_transaction_value",
                 "transactions_pnl", "transactions_pnl_percentage"}

Og == ledger.transaction_history_og

----------------------------------------------------------------------------
\* C1: two Portfolio.get_pnl_timeseries() calls in a row on unchanged
\* holdings and NAV series return the same table and leave the same
\* portfolio.pnl: a call that follows a successful call changes neither.
C1_SecondCallSameTables ==
    [][(out.op = "Portfolio.get_pnl_timeseries" /\ ~out.raised /\ GetPnlTimeseries)
          => (out'.table = out.table /\ pnl' = pnl)]_vars

\* C2: invested_amount(asOf) (net_transaction_value) is the sum of
\* units * signed_price over the transactions dated on or before asOf,
\* whatever the prices are.
C2_InvestedAmountIsCostSum ==
    ret.op = "net_transaction_value"
        => ret.value = Num(CostUpTo(Og, ret.args.max_date))

\* C3: total_units(asOf) is the sum of the signed units of exactly the
\* transactions dated on or before asOf: the cutoff day is included and
\* later days are excluded.
C3_TotalUnitsIsSignedSum ==
    ret.op = "total_units"
        => ret.value = Num(SignedUnitsUpTo(Og, ret.args.max_date))

\* a total_units call with a cutoff, on a ledger holding a transaction dated
\* on the cutoff day and one dated after it
C3_Witness ==
    /\ ret.op = "total_units"
    /\ ret.args.max_date # None
    /\ \E i, j \in 1..Len(Og) :
           Og[i].date_ = ret.args.max_date /\ Og[j].date_ > ret.args.max_date
    /\ ret.value # Num(SignedUnitsUpTo(Og, None))

\* C4: average_price(asOf) is (sum of units * signed_price) / (sum of signed
\* units) over the transactions dated on or before asOf, and 0 when that sum
\* of signed units is 0.
C4_AverageNavIsRatio ==
    ret.op = "average_nav"
        => ret.value =
              IF SignedUnitsUpTo(Og, ret.args.max_date) = 0 THEN Num(0)
              ELSE Div(CostUpTo(Og, ret.args.max_date),
                       SignedUnitsUpTo(Og, ret.args.max_date))

\* an average_nav call with a cutoff on a position that the transactions up
\* to the cutoff sell completely, at a cost that is not 0
C4_Witness ==
    /\ ret.op = "average_nav"
    /\ ret.args.max_date # None
    /\ InScope(Og, ret.args.max_date) # {}
    /\ SignedUnitsUpTo(Og, ret.args.max_date) = 0
    /\ CostUpTo(Og, ret.args.max_date) # 0
    /\ ret.value = Num(0)

\* C5: an aggregate call with asOf omitted is computed over all the
\* transactions of the ledger, whatever cutoffs earlier calls passed: it
\* leaves no cutoff, sees the whole list, and returns the aggregate of the
\* whole list (net_transaction_value: 0 when the signed prices sum to 0).
C5_NoneMeansAllTransactions ==
    (ret.op \in AggregateOps /\ ret.args.max_date = None)
        => /\ ledger.max_date = None
           /\ len(ledger) = Len(Og)
           /\ ret.op = "total_units"
                 => ret.value = Num(SignedUnitsUpTo(Og, None))
           /\ ret.op = "average_nav"
                 => ret.value = IF SignedUnitsUpTo(Og, None) = 0 THEN Num(0)
                                ELSE Div(CostUpTo(Og, None),
                                         SignedUnitsUpTo(Og, None))
           /\ ret.op = "net_transaction_value"
                 => ret.value = IF SignedNavUpTo(Og, None) = 0 THEN Num(0)
                                ELSE Num(CostUpTo(Og, None))
           /\ ret.op = "transactions_pnl"
                 => ret.value = Num(SignedUnitsUpTo(Og, None) * ret.args.current_nav
                                    - CostUpTo(Og, None))
           /\ ret.op = "transactions_pnl_percentage"
                 => ret.value =
                       Div((SignedUnitsUpTo(Og, None) * ret.args.current_nav
                            - CostUpTo(Og, None)) * 100,
                           CostUpTo(Og, None))

\* a total_units call with asOf omitted, made while the ledger held a cutoff
\* that hid a transaction
C5_Witness ==
    /\ ret.op = "total_units"
    /\ ret.args.max_date = None
    /\ ret.after_cutoff
    /\ \E c \in Dates : SignedUnitsUpTo(Og, c) # SignedUnitsUpTo(Og, None)
    /\ ret.value = Num(SignedUnitsUpTo(Og, None))

\* C6: add_transaction with side purchase or sell stores the transaction in
\* the ledger itself: the unfiltered list grows by exactly one entry, the
\* new transaction, whatever calls were made before.
C6_AddGrowsLedger ==
    [][(ret'.op = "add_transaction" /\ ~ret'.raised)
          => /\ Len(ledger'.transaction_history_og) = Len(Og) + 1
             /\ SubSeq(ledger'.transaction_history_og, 1, Len(Og)) = Og]_vars

\* C7: add_transaction with a side that is neither purchase nor sell raises
\* and leaves the ledger (its transactions and its cutoff, so every
\* aggregate) as it was.
C7_InvalidSideRaisesLedgerUnchanged ==
    [][(ret'.op = "add_transaction" /\ ret'.args.side \notin {"purchase", "sell"})
          => (ret'.raised /\ ledger' = ledger)]_vars

\* a rejected add_transaction on a ledger that holds a transaction
C7_Witness ==
    /\ ret.op = "add_transaction"
    /\ ret.args.side = "dividend"
    /\ ret.raised
    /\ Len(Og) > 0

\* C8: an aggregate call has no side effect observable outside its return
\* value: len(ledger) and ledger[i] are the same after it as before.
C8_AggregateLeavesLenAndItems ==
    [][(ret'.op \in AggregateOps)
          => transaction_history(ledger') = transaction_history(ledger)]_vars

\* the rows of the table the last Portfolio.get_pnl_timeseries returned and
\* of the cached per-scheme table
EmittedRows ==
    {out.table[i] : i \in 1..Len(out.table)}
        \cup {pnl.rows[i] : i \in 1..Len(pnl.rows)}

\* C9: every row of the returned table and of the cached per-scheme table
\* (the rows the holdings emitted) has pnl = current_value - total_invested.
C9_PnlIsValueMinusInvested ==
    \A r \in EmittedRows : r.pnl = r.current_value - r.total_invested

\* a call that returned a row and cached a row with a pnl that is not 0
C9_Witness ==
    /\ out.op = "Portfolio.get_pnl_timeseries"
    /\ \E i \in 1..Len(out.table) : out.table[i].pnl # 0
    /\ \E i \in 1..Len(pnl.rows) : pnl.rows[i].pnl # 0

\* C10: every row of the returned table and of the cached per-scheme table
\* has total_invested > 0.
C10_InvestedPositive ==
    \A r \in EmittedRows : r.total_invested > 0

\* a call on a portfolio with a holding that emitted a row for one NAV date
\* and none for a later one, at which its invested amount is negative
C10_Witness ==
    /\ out.op = "Portfolio.get_pnl_timeseries"
    /\ \E k \in 1..Len(holdings) :
         \E d, e \in Dates :
           /\ d < e
           /\ CostUpTo(holdings[k].all_transactions.transaction_history_og, e) < 0
           /\ \E i \in 1..Len(nav_feed[holdings[k].scheme_code]) :
                  nav_feed[holdings[k].scheme_code][i].date = e
           /\ \E i \in 1..Len(pnl.rows) :
                  /\ pnl.rows[i].scheme_code = holdings[k].scheme_code
                  /\ pnl.rows[i].date = d
           /\ \A i \in 1..Len(pnl.rows) :
                  pnl.rows[i].scheme_code = holdings[k].scheme_code
                      => pnl.rows[i].date # e

\* the holding of the portfolio with the scheme code of a cached row
HoldingOf(r) ==
    CHOOSE h \in {holdings[k] : k \in 1..Len(holdings)} :
        h.scheme_code = r.scheme_code

\* the transaction dates of a holding on or before date d
DatesUpTo(h, d) ==
    {h.all_transactions.transaction_history_og[j].date_ :
        j \in 1..Len(h.all_transactions.transaction_history_og)} \cap 1..d

\* the NAV of a scheme on date d
NavOn(code, d) ==
    LET series == nav_feed[code]
    IN  series[CHOOSE i \in 1..Len(series) : series[i].date = d].nav

\* C11: every row a holding emitted for NAV date d carries
\* total_units(asOf = t) and invested_amount(asOf = t), t the latest
\* transaction date on or before d, and current_value = total_units * nav(d);
\* there is no row for a NAV date before the first transaction date.
C11_RowsCarryAsOfValues ==
    \A i \in 1..Len(pnl.rows) :
        LET r == pnl.rows[i]
            h == HoldingOf(r)
            ds == DatesUpTo(h, r.date)
        IN  /\ ds # {}
            /\ r.total_units = total_units(h.all_transactions, Max(ds)).value.num
            /\ r.total_invested =
                   net_transaction_value(h.all_transactions, Max(ds)).value.num
            /\ r.current_value = r.total_units * NavOn(r.scheme_code, r.date)

\* the transaction dates of a holding at which its invested amount is positive
QualifyingDates(h) ==
    {t \in DatesUpTo(h, Max(Dates)) :
        net_transaction_value(h.all_transactions, t).value.num > 0}

Min(S) == CHOOSE x \in S : \A y \in S : x <= y

\* the indices of the cached rows of scheme code for date d
RowsFor(code, d) ==
    {i \in 1..Len(pnl.rows) :
        pnl.rows[i].scheme_code = code /\ pnl.rows[i].date = d}

NavDates(code) == {nav_feed[code][i].date : i \in 1..Len(nav_feed[code])}

\* C12: a holding's table has exactly one row for every NAV date from the
\* first qualifying transaction date (the first transaction date with a
\* positive invested amount) onward, with no NAV date missing after it.
C12_CompleteCurve ==
    pnl.set =>
        \A k \in 1..Len(holdings) :
            LET h == holdings[k]
            IN  QualifyingDates(h) # {} =>
                    \A d \in NavDates(h.scheme_code) :
                        d >= Min(QualifyingDates(h))
                            => Cardinality(RowsFor(h.scheme_code, d)) = 1

\* the dates of the purchases of a holding
PurchaseDates(h) ==
    {h.purchase_history.transaction_history_og[j].date_ :
        j \in 1..Len(h.purchase_history.transaction_history_og)}

\* C13: when the signed units of a holding sum to exactly 0 at transaction
\* date d, average_price(d) is 0 and the holding's table has no row for any
\* NAV date from d up to the next purchase, whatever the prices were.
C13_ZeroPositionNoRow ==
    pnl.set =>
        \A k \in 1..Len(holdings) :
            LET h == holdings[k]
            IN  \A d \in DatesUpTo(h, Max(Dates)) :
                    total_units(h.all_transactions, d).value = Num(0)
                        => /\ average_nav(h.all_transactions, d).value = Num(0)
                           /\ \A e \in NavDates(h.scheme_code) :
                                  (e >= d /\ PurchaseDates(h) \cap (d+1)..e = {})
                                      => RowsFor(h.scheme_code, e) = {}

\* the indices of the cached per-scheme rows of date d
CachedOn(d) == {i \in 1..Len(pnl.rows) : pnl.rows[i].date = d}

InvestedOn(d) ==
    SumOver([i \in 1..Len(pnl.rows) |-> pnl.rows[i].total_invested], CachedOn(d))

ValueOn(d) ==
    SumOver([i \in 1..Len(pnl.rows) |-> pnl.rows[i].current_value], CachedOn(d))

\* C14: every row of the table Portfolio.get_pnl_timeseries returned carries
\* the sums of total_invested and current_value over the cached per-scheme
\* rows of its date, pnl = summed value - summed invested, and
\* pnl_percentage = that pnl / summed invested * 100.
C14_PortfolioRowsAreSums ==
    \A i \in 1..Len(out.table) :
        LET r == out.table[i]
        IN  /\ r.total_invested = InvestedOn(r.date)
            /\ r.current_value = ValueOn(r.date)
            /\ r.pnl = ValueOn(r.date) - InvestedOn(r.date)
            /\ r.pnl_percentage =
                   Div((ValueOn(r.date) - InvestedOn(r.date)) * 100,
                       InvestedOn(r.date))

\* a returned row for a date on which two schemes have rows, whose
\* percentages (whole numbers here) do not add up to the row's percentage
C14_Witness ==
    /\ out.op = "Portfolio.get_pnl_timeseries"
    /\ \E i \in 1..Len(out.table) :
         \E a, b \in CachedOn(out.table[i].date) :
            /\ pnl.rows[a].scheme_code # pnl.rows[b].scheme_code
            /\ pnl.rows[a].pnl_percentage.den = 1
            /\ pnl.rows[b].pnl_percentage.den = 1
            /\ Num(pnl.rows[a].pnl_percentage.num + pnl.rows[b].pnl_percentage.num)
                   # out.table[i].pnl_percentage
            /\ pnl.rows[a].pnl > 0
            /\ pnl.rows[b].pnl < 0

\* the table holding k computes in a call made in the current state, tagged
OwnTable(k) ==
    TagRows(Holding_get_pnl_timeseries(holdings[k],
                                       nav_feed[holdings[k].scheme_code]).value,
            holdings[k].scheme_code)

\* the position in the portfolio of the holding with the scheme code of a row
IndexOf(r) == CHOOSE k \in 1..Len(holdings) : holdings[k].scheme_code = r.scheme_code

\* C15: a successful Portfolio.get_pnl_timeseries() leaves in portfolio.pnl
\* exactly the tagged tables its holdings computed in that call, one after
\* the other in the order of the holdings, and nothing else: no row of an
\* earlier call stays.
C15_CacheIsConcatOfOwnTables ==
    [][(GetPnlTimeseries /\ ~out'.raised)
          => /\ pnl'.set
             /\ \A k \in 1..Len(holdings) :
                    SelectSeq(pnl'.rows,
                              LAMBDA r : r.scheme_code = holdings[k].scheme_code)
                        = OwnTable(k)
             /\ \A i \in 1..Len(pnl'.rows) :
                    \E k \in 1..Len(holdings) :
                        pnl'.rows[i].scheme_code = holdings[k].scheme_code
             /\ \A i, j \in 1..Len(pnl'.rows) :
                    i < j => IndexOf(pnl'.rows[i]) <= IndexOf(pnl'.rows[j])]_vars

\* the cache the first call on the portfolio left, when no cutoff was yet
\* left on a ledger
RECURSIVE FirstCache(_)
FirstCache(k) ==
    IF k = 0 THEN <<>>
    ELSE FirstCache(k - 1)
         \o TagRows(Holding_get_pnl_timeseries(
                        [holdings[k] EXCEPT !.all_transactions.max_date = None],
                        nav_feed[holdings[k].scheme_code]).value,
                    holdings[k].scheme_code)

\* a repeated successful call: the first call cached rows, and the cache now
\* holds rows that are not the rows of the first call
C15_Witness ==
    /\ out.op = "Portfolio.get_pnl_timeseries"
    /\ ~out.raised
    /\ FirstCache(Len(holdings)) # <<>>
    /\ pnl.rows # <<>>
    /\ pnl.rows # FirstCache(Len(holdings))

\* C16: Portfolio.get_pnl_timeseries() raises, and returns no table, when the
\* portfolio has no holdings and when its holdings yield no valid row: a
\* call that returns has a holding and a cached row.
C16_EmptyPortfolioRaises ==
    (out.op = "Portfolio.get_pnl_timeseries" /\ ~out.raised)
        => (holdings # <<>> /\ pnl.rows # <<>>)

----------------------------------------------------------------------------
\* The entry point (src/app.py): create_portfolio under st.cache_data, and the
\* script lines that call it

Users == {"asha", "ravi"}
NoUser == ""                 \* username is None: nobody is logged in

\* what find_one({"username": username}) finds: nothing, or the user's record
\* with its list of scheme records
AppLedgers ==
    {t \in Transcations :
        Len(t) = 0 \/ (Len(t) = 1 /\ Len(t[1].purchase_history)
                                      + Len(t[1].sale_history) <= 1)}

Dbs ==
    [Users -> {[found |-> FALSE, transactions |-> <<>>]}
              \cup [found : {TRUE}, transactions : AppLedgers]]

\* the NAV series the API serves when nav_data is None
AppFeed ==
    [c \in {SchemeCodes[i] : i \in 1..Len(SchemeCodes)} |->
        <<[date |-> 2, nav |-> 2], [date |-> 1, nav |-> 1]>>]

\* mutant: a user without a record has an empty list of transactions
get_transactions_empty(db, username) ==
    [raised |-> "", value |-> db[username].transactions]

get_transactions(db, username) ==
    IF ~db[username].found
    THEN [raised |-> "NoTransactions", value |-> <<>>]
    ELSE [raised |-> "", value |-> db[username].transactions]

\* Portfolio(<keyword>=value): __init__ takes holdings, transcations and
\* logger; any other keyword is a TypeError before the object exists
Portfolio(keyword, value) ==
    IF keyword \notin {"holdings", "transcations", "logger"}
    THEN [raised |-> "TypeError", holdings |-> <<>>]
    ELSE [raised |-> "",
          holdings |-> IF keyword = "transcations" /\ value # <<>>
                       THEN create_holdings(value) ELSE <<>>]

NoResult(raised) ==
    [raised |-> raised, built |-> FALSE, pnl |-> NoPnl, value |-> <<>>]

PnlOf(r) ==
    [raised |-> IF r.raised THEN "ValueError" ELSE "", built |-> TRUE,
     pnl |-> r.pnl, value |-> r.value]

PortfolioThenPnl(p) ==
    IF p.raised # "" THEN NoResult(p.raised)
    ELSE PnlOf(Portfolio_get_pnl_timeseries(p.holdings, NoPnl, AppFeed))

TransactionsThenPortfolio(t) ==
    IF t.raised # "" THEN NoResult(t.raised)
    ELSE PortfolioThenPnl(Portfolio("transactions", t.value))

\* the body of create_portfolio(username, date)
create_portfolio(db, username, date) ==
    TransactionsThenPortfolio(get_transactions(db, username))

\* @st.cache_data: a stored result is returned without running the body; a
\* result is stored only when the body returns
CacheKeys(cache) == {[username |-> e.username, date |-> e.date] : e \in cache}

Cached(cache, username, date) ==
    CHOOSE e \in cache : e.username = username /\ e.date = date

cache_data(cache, db, username, date, r) ==
    IF [username |-> username, date |-> date] \in CacheKeys(cache)
    THEN [cache |-> cache, result |-> Cached(cache, username, date).result]
    ELSE [cache |-> IF r.raised = "" THEN
                        cache \cup {[username |-> username, date |-> date,
                                     result |-> r]}
                    ELSE cache,
          result |-> r]

NoRun == [username |-> NoUser, date |-> None, outcome |-> "init",
          no_transaction |-> TRUE, built |-> FALSE, pnl_all |-> NoPnl]

\* the try block of the script: st.stop() when nobody is logged in, the
\* NoTransactions handler, any other exception uncaught
ScriptRun(username, date, c) ==
    [username |-> username, date |-> date,
     outcome |-> IF c.result.raised = "NoTransactions" THEN "no transactions"
                 ELSE IF c.result.raised # "" THEN c.result.raised
                 ELSE "shown",
     no_transaction |-> c.result.raised # "",
     built |-> c.result.built,
     pnl_all |-> IF c.result.raised = "" THEN c.result.pnl ELSE NoPnl]

RunScript ==
    \E username \in Users \cup {NoUser}, date \in Dates :
        /\ app' = IF username = NoUser
                  THEN [app EXCEPT !.run = [NoRun EXCEPT !.outcome = "stopped"]]
                  ELSE LET c == cache_data(app.cache, app.db, username, date,
                                           create_portfolio(app.db, username, date))
                       IN  [app EXCEPT !.cache = c.cache,
                                       !.run = ScriptRun(username, date, c)]
        /\ UNCHANGED <<ledgerVars, portfolioVars, summary, fleetVars>>

AInit ==
    /\ ledger = TrasactionHistory
    /\ ret = NoRet
    /\ holdings = <<>>
    /\ nav_feed = <<>>
    /\ pnl = NoPnl
    /\ out = NoOut
    /\ app \in [db : Dbs, cache : {{}}, run : {NoRun}]
    /\ summary = NoSummary
    /\ fleet = NoFleet

ANext ==
    \/ RunScript

SpecApp == AInit /\ [][ANext]_vars

\* C17: a script run for a logged-in user with no record in the ledger
\* source ends in the "no transactions" state, raised by get_transactions
\* before a Portfolio is built, and writes nothing: the st.cache_data cache
\* is as it was and there is no portfolio.pnl.
C17_NoRecordNoSideEffect ==
    [][\A u \in Users :
          (RunScript /\ app'.run.username = u /\ ~app.db[u].found)
              => /\ app'.run.outcome = "no transactions"
                 /\ app'.run.no_transaction
                 /\ ~app'.run.built
                 /\ app'.run.pnl_all = NoPnl
                 /\ app'.cache = app.cache
                 /\ \A e \in app'.cache : e.username # u]_vars

\* a run for a user without a record, in a ledger source that holds a record
\* with a transaction for the other user
C17_Witness ==
    /\ app.run.username \in Users
    /\ ~app.db[app.run.username].found
    /\ app.run.outcome = "no transactions"
    /\ \E v \in Users : app.db[v].found /\ app.db[v].transactions # <<>>

----------------------------------------------------------------------------
\* The report engine (src/plots_and_summary.py): checkpoint resolution

Reverse(list) == [i \in 1..Len(list) |-> list[Len(list) + 1 - i]]

Range(list) == {list[i] : i \in 1..Len(list)}

\* mutant: a date that is already matched can be matched again
RECURSIVE match_nearest_date_again(_, _, _)
match_nearest_date_again(dates_to_match, all_dates, dates_matched) ==
    IF dates_to_match = <<>> THEN dates_matched
    ELSE LET date == Head(dates_to_match)
             found == {i \in 1..Len(all_dates) : all_dates[i] <= date}
         IN  match_nearest_date_again(
                 Tail(dates_to_match), all_dates,
                 IF found = {} THEN dates_matched
                 ELSE Append(dates_matched,
                             all_dates[CHOOSE i \in found : \A j \in found : i <= j]))

\* _match_nearest_date: for every date to match in turn, the first date of
\* all_dates that is on or before it and not matched yet; nothing when there
\* is none
RECURSIVE match_nearest_date(_, _, _)
match_nearest_date(dates_to_match, all_dates, dates_matched) ==
    IF dates_to_match = <<>> THEN dates_matched
    ELSE LET date == Head(dates_to_match)
             found == {i \in 1..Len(all_dates) :
                          /\ all_dates[i] <= date
                          /\ all_dates[i] \notin Range(dates_matched)}
         IN  match_nearest_date(
                 Tail(dates_to_match), all_dates,
                 IF found = {} THEN dates_matched
                 ELSE Append(dates_matched, all_dates[Min(found)]))

deltas == <<1, 2, 3, 7, 15, 30>>

date_names == <<"T", "T-1", "T-2", "T-3", "Last Week", "Last 15 Days",
                "Last Month">>

\* the max and the min of an empty date column: no date is on or before it
NaT == -1000

\* pnl["date"].tolist()
DateColumn(pnl_) == [i \in 1..Len(pnl_) |-> pnl_[i].date]

\* the dates to match: the last date, the last date less every delta, the
\* first date
DatesToUse(pnl_, extra_deltas) ==
    LET last_date == IF pnl_ = <<>> THEN NaT ELSE Max(Range(DateColumn(pnl_)))
        first_date == IF pnl_ = <<>> THEN NaT ELSE Min(Range(DateColumn(pnl_)))
        all_deltas == deltas \o extra_deltas
    IN  <<last_date>>
        \o [i \in 1..Len(all_deltas) |->
               IF last_date = NaT THEN NaT ELSE last_date - all_deltas[i]]
        \o <<first_date>>

\* the names of the dates to match: the seven standard names, the extra
\* names, "Last d Days" for the first extra deltas when names are missing,
\* and "Since Start"
DateNames(dates_to_use, extra_deltas, extra_names) ==
    LET named == date_names \o extra_names
        new_names_to_add == Len(dates_to_use) - Len(named) - 1
    IN  named
        \o (IF Len(dates_to_use) # Len(named) /\ new_names_to_add > 0
            THEN [i \in 1..new_names_to_add |->
                     "Last " \o ToString(extra_deltas[i]) \o " Days"]
            ELSE <<>>)
        \o <<"Since Start">>

\* the dates of a set, latest first
RECURSIVE Descending(_)
Descending(S) ==
    IF S = {} THEN <<>> ELSE <<Max(S)>> \o Descending(S \ {Max(S)})

\* OrderedDict(zip(dates_matched, date_names)): the k-th matched date with
\* the k-th name, as far as both lists go
Mapping(dates_matched, names) ==
    [d \in {dates_matched[k] : k \in 1..Len(dates_matched) \cap 1..Len(names)} |->
        names[CHOOSE k \in 1..Len(dates_matched) : dates_matched[k] = d]]

\* pnl[pnl["date"].isin(dates_matched)].sort_values("date", ascending=False)
RECURSIVE RowsByDate(_, _)
RowsByDate(pnl_, dates) ==
    IF dates = <<>> THEN <<>>
    ELSE SelectSeq(pnl_, LAMBDA r : r.date = Head(dates))
         \o RowsByDate(pnl_, Tail(dates))

\* create_dates_and_filtered_df, on the dates to use and the dates matched
FilteredDf(pnl_, extra_deltas, extra_names, dates_to_use, dates_matched) ==
    [op |-> "create_dates_and_filtered_df",
     pnl |-> pnl_, extra_deltas |-> extra_deltas, extra_names |-> extra_names,
     dates_to_use |-> dates_to_use,
     dates_matched |-> dates_matched,
     names |-> DateNames(dates_to_use, extra_deltas, extra_names),
     date_names |->
         LET mapping == Mapping(dates_matched,
                                DateNames(dates_to_use, extra_deltas, extra_names))
             sorted == Descending(Range(dates_matched))
         IN  [k \in 1..Len(sorted) |-> mapping[sorted[k]]],
     summary_df |-> RowsByDate(pnl_, Descending(Range(dates_matched)))]

\* mutant: the dates are scanned in the order of the table, earliest first
MatchThenFilter_unreversed(pnl_, extra_deltas, extra_names, dates_to_use) ==
    FilteredDf(pnl_, extra_deltas, extra_names, dates_to_use,
               match_nearest_date(dates_to_use, DateColumn(pnl_), <<>>))

MatchThenFilter(pnl_, extra_deltas, extra_names, dates_to_use) ==
    FilteredDf(pnl_, extra_deltas, extra_names, dates_to_use,
               match_nearest_date(dates_to_use, Reverse(DateColumn(pnl_)), <<>>))

create_dates_and_filtered_df(pnl_, extra_deltas, extra_names) ==
    MatchThenFilter(pnl_, extra_deltas, extra_names,
                    DatesToUse(pnl_, extra_deltas))

\* The PnL tables handed to the report engine: the table of a portfolio or of
\* one scheme, ascending by date with every date once, and the per-scheme
\* table of two schemes, one scheme's rows after the other's
SeriesDays == {1, 2, 3, 28, 29, 30, 31, 32}
PairDays == {1, 2, 31, 32}

SeriesOf(S, scheme_code) ==
    [i \in 1..Cardinality(S) |->
        [date |-> Ascending(S)[i], scheme_code |-> scheme_code]]

PnlTables ==
    {SeriesOf(S, SchemeCodes[1]) : S \in (SUBSET SeriesDays) \ {{}}}
    \cup {SeriesOf(S, SchemeCodes[1]) \o SeriesOf(R, SchemeCodes[2]) :
             S \in (SUBSET PairDays) \ {{}}, R \in (SUBSET PairDays) \ {{}}}

ExtraDeltas == {<<>>, <<4>>, <<4, 5>>}
ExtraNames == {<<>>, <<"Custom">>}

\* the arguments of a call of the report engine
SummaryArgs ==
    [op : {"args"}, pnl : PnlTables, extra_deltas : ExtraDeltas,
     extra_names : ExtraNames]

CreateDatesAndFilteredDf ==
    /\ summary.op = "args"
    /\ summary' = create_dates_and_filtered_df(summary.pnl, summary.extra_deltas,
                                               summary.extra_names)
    /\ UNCHANGED <<ledgerVars, portfolioVars, app, fleetVars>>

RInit ==
    /\ ledger = TrasactionHistory
    /\ ret = NoRet
    /\ holdings = <<>>
    /\ nav_feed = <<>>
    /\ pnl = NoPnl
    /\ out = NoOut
    /\ app = NoApp
    /\ summary \in SummaryArgs
    /\ fleet = NoFleet

RNext ==
    \/ CreateDatesAndFilteredDf

SpecReport == RInit /\ [][RNext]_vars

\* a table in ascending date order, every date once
IsSeries(pnl_) ==
    \A i, j \in 1..Len(pnl_) : i < j => pnl_[i].date < pnl_[j].date

\* the dates of a set on or before a target
OnOrBefore(days, target) == {d \in days : d <= target}

\* for every target in turn that has a date on or before it, the latest
\* such date
RECURSIVE LatestOnOrBefore(_, _)
LatestOnOrBefore(targets, days) ==
    IF targets = <<>> THEN <<>>
    ELSE (IF OnOrBefore(days, Head(targets)) = {} THEN <<>>
          ELSE <<Max(OnOrBefore(days, Head(targets)))>>)
         \o LatestOnOrBefore(Tail(targets), days)

\* for every target in turn, the latest date on or before it that no earlier
\* target was matched to, and nothing when no such date is left
RECURSIVE LatestUnused(_, _, _)
LatestUnused(targets, days, matched) ==
    IF targets = <<>> THEN matched
    ELSE LET left == OnOrBefore(days, Head(targets)) \ Range(matched)
         IN  LatestUnused(Tail(targets), days,
                          IF left = {} THEN matched
                          ELSE Append(matched, Max(left)))

IsSummaryOfSeries ==
    summary.op = "create_dates_and_filtered_df" /\ IsSeries(summary.pnl)

SeriesDates == Range(DateColumn(summary.pnl))

\* C18: for a table in ascending date order, every checkpoint target (max
\* date less 0, 1, 2, 3, 7, 15, 30 and every extra delta, and the minimum
\* date) is matched to the latest date of the series on or before it.
C18_MatchedIsLatestOnOrBefore ==
    IsSummaryOfSeries =>
        summary.dates_matched
            = LatestOnOrBefore(summary.dates_to_use, SeriesDates)

\* C18 amended: every checkpoint target is matched to the latest date of the
\* series on or before it that no earlier checkpoint was matched to, and to
\* nothing when no such date is left.
C18_MatchedIsLatestUnused ==
    IsSummaryOfSeries =>
        summary.dates_matched
            = LatestUnused(summary.dates_to_use, SeriesDates, <<>>)

\* a series with gaps: a target whose latest date on or before it was taken
\* by an earlier checkpoint while an earlier date was left for it, a target
\* left with no date, and a target other than T matched to its own date
C18_Witness ==
    /\ IsSummaryOfSeries
    /\ \E k \in 2..Len(summary.dates_to_use) :
         LET before == LatestUnused(SubSeq(summary.dates_to_use, 1, k - 1),
                                    SeriesDates, <<>>)
             here == OnOrBefore(SeriesDates, summary.dates_to_use[k])
         IN  /\ Max(here \cup {0}) \in Range(before)
             /\ here \ Range(before) # {}
    /\ \E k \in 2..Len(summary.dates_to_use) :
         LET before == LatestUnused(SubSeq(summary.dates_to_use, 1, k - 1),
                                    SeriesDates, <<>>)
             here == OnOrBefore(SeriesDates, summary.dates_to_use[k])
         IN  here # {} /\ here \ Range(before) = {}
    /\ \E k \in 2..(Len(summary.dates_to_use) - 1) :
         /\ summary.dates_to_use[k] \in SeriesDates
         /\ summary.dates_to_use[k] \in Range(summary.dates_matched)

LabelOf(d) ==
    summary.date_names[CHOOSE i \in 1..Len(summary.date_names) :
                           Descending(Range(summary.dates_matched))[i] = d]

\* what the first k targets are matched to (ascending series: C18)
MatchedUpTo(k) ==
    LatestUnused(SubSeq(summary.dates_to_use, 1, k), SeriesDates, <<>>)

\* C20: in the summary of an ascending series every row carries the label
\* of the checkpoint whose target resolved to the row's date: the standard
\* checkpoints T .. Last Month and Since Start label the dates they were
\* matched to, the row of the maximum date is T, and with two or more dates
\* the row of the minimum date is Since Start.
C20_RowsCarryOwnLabel ==
    IsSummaryOfSeries =>
        /\ Len(summary.date_names) = Len(summary.dates_matched)
        /\ \A k \in 1..Len(summary.dates_to_use) :
               (Len(MatchedUpTo(k)) > Len(MatchedUpTo(k - 1))
                    /\ (k <= Len(date_names) \/ k = Len(summary.dates_to_use)))
                   => LabelOf(MatchedUpTo(k)[Len(MatchedUpTo(k))])
                          = IF k <= Len(date_names) THEN date_names[k]
                            ELSE "Since Start"
        /\ LabelOf(Max(SeriesDates)) = "T"
        /\ Cardinality(SeriesDates) >= 2
               => LabelOf(Min(SeriesDates)) = "Since Start"

----------------------------------------------------------------------------
\* The report engine (src/plots_and_summary.py): the summaries
\*
\* The amounts of the tables handed to the summaries are floats; the model
\* counts them in 1/AmountScale of a currency unit, so that an amount can
\* have a fractional part.
AmountScale == 2

\* astype(int) of an amount: the whole currency units, truncated toward zero
astype_int(a) ==
    IF a >= 0 THEN a \div AmountScale ELSE -((-a) \div AmountScale)

\* round(digits) of a finite fraction, with scale = 10^digits: the nearest
\* 1/scale, a tie to the even one; nan and the infinities stay as they are
round(x, scale) ==
    IF x.den = 0 THEN x
    ELSE LET n == 2 * scale * x.num + x.den
             q == n \div (2 * x.den)
             h == IF n % (2 * x.den) = 0 /\ q % 2 = 1 THEN q - 1 ELSE q
         IN  Div(h, scale)

round_2(x) == round(x, 100)

\* mutant: the change is taken from the checkpoint to T with the sign turned
SummaryRow_reversed(label, r, first) ==
    LET pnl_change == r.pnl - first.pnl
        pnl_ == r.current_value - r.total_invested
    IN  [date |-> label,
         date_og |-> r.date,
         total_investments |-> astype_int(r.total_invested),
         current_values |-> astype_int(r.current_value),
         pnl |-> astype_int(pnl_),
         pnl_percentage |-> round_2(Div(pnl_ * 100, r.total_invested)),
         pnl_change_relative |-> astype_int(pnl_change),
         pnl_change_relative_percentage |->
             round_2(Div(pnl_change * 100, first.total_invested))]

\* one row of the summary (lines 667-692), from its name, its row r of the
\* filtered table and the first row of the filtered table
SummaryRow(label, r, first) ==
    LET pnl_change == first.pnl - r.pnl
        pnl_ == r.current_value - r.total_invested
    IN  [date |-> label,
         date_og |-> r.date,
         total_investments |-> astype_int(r.total_invested),
         current_values |-> astype_int(r.current_value),
         pnl |-> astype_int(pnl_),
         pnl_percentage |-> round_2(Div(pnl_ * 100, r.total_invested)),
         pnl_change_relative |-> astype_int(pnl_change),
         pnl_change_relative_percentage |->
             round_2(Div(pnl_change * 100, first.total_invested))]

\* create_summary on the names and the filtered table: pnl_[0] raises
\* IndexError on an empty filtered table (line 670), pd.DataFrame raises
\* ValueError when there are not as many names as rows (line 680)
SummaryOf(pnl_, extra_deltas, f) ==
    IF f.summary_df = <<>> \/ Len(f.date_names) # Len(f.summary_df)
    THEN [op |-> "create_summary", pnl |-> pnl_, extra_deltas |-> extra_deltas,
          raised |-> TRUE, value |-> <<>>]
    ELSE [op |-> "create_summary", pnl |-> pnl_, extra_deltas |-> extra_deltas,
          raised |-> FALSE,
          value |-> [i \in 1..Len(f.summary_df) |->
                        SummaryRow(f.date_names[i], f.summary_df[i],
                                   f.summary_df[1])]]

create_summary(pnl_, extra_deltas, extra_names) ==
    SummaryOf(pnl_, extra_deltas,
              create_dates_and_filtered_df(pnl_, extra_deltas, extra_names))

\* the values of a column, each once, in the order of first appearance
RECURSIVE unique(_)
unique(list) ==
    IF list = <<>> THEN <<>>
    ELSE LET rest == unique(SubSeq(list, 1, Len(list) - 1))
         IN  IF list[Len(list)] \in Range(rest) THEN rest
             ELSE Append(rest, list[Len(list)])

SchemeColumn(pnl_all) == [i \in 1..Len(pnl_all) |-> pnl_all[i].scheme_code]

\* the name of a scheme: the short name, or the symbol when the short name
\* is empty, of the first entry of the instrument mapping with its code, and
\* "Unknown" when there is none
NameOf(scheme, mapping) ==
    LET matched == SelectSeq(mapping, LAMBDA x : x.scheme_code = scheme)
    IN  IF matched # <<>>
        THEN (IF matched[1].short_name # "" THEN matched[1].short_name
              ELSE matched[1].symbol)
        ELSE "Unknown"

NamesOf(schemes, mapping) ==
    [i \in 1..Len(schemes) |-> NameOf(schemes[i], mapping)]

\* OrderedDict(zip(keys, values)): a later value of a key replaces the
\* earlier one
OrderedDict(keys, values) ==
    [k \in Range(keys) |->
        values[Max({i \in 1..Len(keys) : keys[i] = k})]]

HoldingsOf(mapping, schemes, names) ==
    [op |-> "get_all_holdings", mapping |-> mapping,
     schemes |-> schemes, names |-> names,
     names_scheme_mapping |-> OrderedDict(schemes, names),
     schemes_names_mapping |-> OrderedDict(names, schemes)]

\* get_all_holdings, on the instrument mapping create_mapping() reads
get_all_holdings(pnl_all, mapping) ==
    HoldingsOf(mapping, unique(SchemeColumn(pnl_all)),
               NamesOf(unique(SchemeColumn(pnl_all)), mapping))

\* the order of the scheme names as strings
NameOrder == <<"Alpha", "BETA", "Unknown">>
NameRank(name) == CHOOSE i \in 1..Len(NameOrder) : NameOrder[i] = name

\* the last num_days of the dates of the table
DatesToTake(pnl_all, num_days) ==
    LET dates == Ascending(Range(DateColumn(pnl_all)))
    IN  SubSeq(dates, Max({1, Len(dates) - num_days + 1}), Len(dates))

\* the cells of the pivot for a scheme name and a date: the value of the
\* one row there is, and 0 (fillna) when there is none
RowsAt(rows, name, date) ==
    SelectSeq(rows, LAMBDA r : r.scheme_name = name /\ r.date = date)

PnlCell(rows, name, date) ==
    IF RowsAt(rows, name, date) = <<>> THEN 0
    ELSE RowsAt(rows, name, date)[1].pnl

PctCell(rows, name, date) ==
    IF RowsAt(rows, name, date) = <<>> THEN Num(0)
    ELSE RowsAt(rows, name, date)[1].pnl_percentage

\* one row of the pivot, formatted: pnl as whole numbers (astype(int)), pnl%
\* to 4 decimals
PivotRow(rows, name, dates) ==
    [scheme |-> name,
     pnl |-> [d \in Range(dates) |-> astype_int(PnlCell(rows, name, d))],
     pnl_pct |-> [d \in Range(dates) |->
                     round(PctCell(rows, name, d), 10000)]]

\* sort_values(by the pnl of the latest date, ascending=False)
RECURSIVE SortByLatestPnl(_, _)
SortByLatestPnl(rows, date) ==
    IF rows = <<>> THEN <<>>
    ELSE LET top == CHOOSE i \in 1..Len(rows) :
                        /\ \A j \in 1..Len(rows) :
                               rows[j].pnl[date] <= rows[i].pnl[date]
                        /\ \A j \in 1..(i - 1) :
                               rows[j].pnl[date] < rows[i].pnl[date]
         IN  <<rows[top]>>
             \o SortByLatestPnl(SubSeq(rows, 1, top - 1)
                                    \o SubSeq(rows, top + 1, Len(rows)), date)

\* the names of a set, in the order of the strings
RECURSIVE ByName(_)
ByName(S) ==
    IF S = {} THEN <<>>
    ELSE LET n == CHOOSE x \in S : \A y \in S : NameRank(x) <= NameRank(y)
         IN  <<n>> \o ByName(S \ {n})

\* lines 191-223 on the rows of the dates to take, with their scheme names:
\* pivot raises ValueError when a scheme name has two rows of one date, and
\* columns[1] raises IndexError when the pivot has no date column
AbsoluteSummaryOf(pnl_all, names_scheme_mapping, num_days, rows, dates) ==
    IF \/ dates = <<>>
       \/ \E i, j \in 1..Len(rows) :
             /\ i # j
             /\ rows[i].scheme_name = rows[j].scheme_name
             /\ rows[i].date = rows[j].date
    THEN [op |-> "create_scheme_level_absolute_pnl_summary",
          pnl_all |-> pnl_all, names_scheme_mapping |-> names_scheme_mapping,
          num_days |-> num_days, raised |-> TRUE,
          dates |-> dates, value |-> <<>>]
    ELSE [op |-> "create_scheme_level_absolute_pnl_summary",
          pnl_all |-> pnl_all, names_scheme_mapping |-> names_scheme_mapping,
          num_days |-> num_days, raised |-> FALSE,
          dates |-> dates,
          value |->
              LET names == ByName({rows[i].scheme_name : i \in 1..Len(rows)})
              IN  SortByLatestPnl(
                      [k \in 1..Len(names) |-> PivotRow(rows, names[k], dates)],
                      dates[Len(dates)])]

\* the rows of the dates to take, with the scheme name in place of the code
NamedRows(pnl_all, names_scheme_mapping, dates) ==
    LET taken == SelectSeq(pnl_all, LAMBDA r : r.date \in Range(dates))
    IN  [i \in 1..Len(taken) |->
            [date |-> taken[i].date, scheme_code |-> taken[i].scheme_code,
             scheme_name |-> names_scheme_mapping[taken[i].scheme_code],
             pnl |-> taken[i].pnl, pnl_percentage |-> taken[i].pnl_percentage]]

create_scheme_level_absolute_pnl_summary(pnl_all, names_scheme_mapping, num_days) ==
    AbsoluteSummaryOf(pnl_all, names_scheme_mapping, num_days,
                      NamedRows(pnl_all, names_scheme_mapping,
                                DatesToTake(pnl_all, num_days)),
                      DatesToTake(pnl_all, num_days))

\* the rows of a table for a scheme code and a date
SchemeRowsAt(df, scheme, date) ==
    SelectSeq(df, LAMBDA r : r.scheme_code = scheme /\ r.date = date)

\* groupby(["scheme_code", "date"]).sum() of a column
GroupSum(df, scheme, date, column) ==
    LET g == SchemeRowsAt(df, scheme, date)
    IN  np_sum([i \in 1..Len(g) |->
                   IF column = "pnl" THEN g[i].pnl ELSE g[i].total_invested])

\* the dates of the filtered table on which a scheme has a row
DatesWith(df, scheme) ==
    {df[i].date : i \in {j \in 1..Len(df) : df[j].scheme_code = scheme}}

\* drop_duplicates(subset=["scheme_code"], keep="last") of the groups, which
\* are ascending by date: the group of the scheme's last date in the
\* filtered table
CurrentPnl(df, scheme) == GroupSum(df, scheme, Max(DatesWith(df, scheme)), "pnl")

TotalInvestment(df, scheme) ==
    GroupSum(df, scheme, Max(DatesWith(df, scheme)), "total_invested")

\* the cell of the pivot for a date and a scheme after bfill(): the change of
\* the scheme's first row dated on or after the date, [nan |-> TRUE] when
\* it has none
ChangeCell(df, scheme, date) ==
    LET later == {d \in DatesWith(df, scheme) : d >= date}
    IN  IF later = {} THEN [nan |-> TRUE, change |-> 0, pct |-> NaN]
        ELSE LET change == CurrentPnl(df, scheme)
                               - GroupSum(df, scheme, Min(later), "pnl")
             IN  [nan |-> FALSE, change |-> change,
                  pct |-> Div(change * 100, TotalInvestment(df, scheme))]

\* format_numbers drops an int column that astype(int) cannot convert: the
\* change_in_pnl column of a scheme with a nan cell
IntColumns(df, schemes, dates) ==
    {s \in schemes : \A d \in Range(dates) : ~ChangeCell(df, s, d).nan}

\* one row of the relative summary: the change of every scheme as a whole
\* number, its percentage to 4 decimals
RelativeRow(df, schemes, dates, label, date) ==
    [label |-> label, Date |-> date,
     change_in_pnl |->
         [s \in IntColumns(df, schemes, dates) |->
             astype_int(ChangeCell(df, s, date).change)],
     change_in_pnl_pct |->
         [s \in schemes |-> round(ChangeCell(df, s, date).pct, 10000)]]

\* lines 271-316 on the names and the filtered table: the pivot of an empty
\* table may raise or not (raises), names_scheme_mapping[code] raises
\* KeyError for a code it does not hold, the first row is removed
RelativeSummaryOf(pnl_, extra_deltas, names_scheme_mapping, f, raises) ==
    LET df == f.summary_df
        schemes == Range(SchemeColumn(df))
        dates == Descending(Range(DateColumn(df)))
    IN  IF \/ (df = <<>> /\ raises)
           \/ ~(schemes \subseteq DOMAIN names_scheme_mapping)
           \/ Len(f.date_names) # Len(dates)
        THEN [op |-> "create_scheme_level_relative_pnl_summary",
              pnl |-> pnl_, extra_deltas |-> extra_deltas, raised |-> TRUE,
              dates_to_use |-> f.dates_to_use,
              dates_matched |-> f.dates_matched,
              columns |-> <<>>, value |-> <<>>]
        ELSE [op |-> "create_scheme_level_relative_pnl_summary",
              pnl |-> pnl_, extra_deltas |-> extra_deltas, raised |-> FALSE,
              dates_to_use |-> f.dates_to_use,
              dates_matched |-> f.dates_matched,
              columns |-> [s \in schemes |-> names_scheme_mapping[s]],
              value |-> [i \in 1..(Len(dates) - 1) |->
                            RelativeRow(df, schemes, dates,
                                        f.date_names[i + 1], dates[i + 1])]]

create_scheme_level_relative_pnl_summary(pnl_, mapping, extra_deltas, extra_names, raises) ==
    RelativeSummaryOf(pnl_, extra_deltas, mapping,
                      create_dates_and_filtered_df(pnl_, extra_deltas,
                                                   extra_names),
                      raises)

\* The per-scheme tables handed to the summaries (portfolio.pnl): for every
\* scheme the rows of its own series, ascending by date with every date
\* once and a positive invested amount, one scheme's rows after the other's
ReportDays == {1, 2, 3}
RowValues == {<<3, 6>>, <<4, 2>>}     \* <<total_invested, current_value>>

SchemeRow(date, scheme_code, v) ==
    [date |-> date, scheme_code |-> scheme_code,
     total_invested |-> v[1], current_value |-> v[2], pnl |-> v[2] - v[1],
     pnl_percentage |-> Div((v[2] - v[1]) * 100, v[1])]

SchemeSeries(scheme_code) ==
    UNION {{[i \in 1..Cardinality(S) |->
                SchemeRow(Ascending(S)[i], scheme_code, f[Ascending(S)[i]])] :
               f \in [S -> RowValues]} : S \in SUBSET ReportDays}

PerSchemeTables ==
    {a \o b : a \in SchemeSeries(SchemeCodes[1]),
              b \in SchemeSeries(SchemeCodes[2])}

\* the table get_pnl_timeseries returns for a per-scheme table (lines 569-583)
PortfolioTable(pnl_all) ==
    EmitPortfolioRows(SelectSeq(groupby_date(pnl_all), KeepPortfolioRow))

\* the extra deltas of the multiselect of a summary tab
TabDeltas == {<<>>, <<4>>}

\* the slider of the absolute summary tab
NumDays == {1, 2}

\* what create_mapping() reads: an entry for none, one or both of the schemes
InstrumentEntries ==
    <<[scheme_code |-> SchemeCodes[1], symbol |-> "ALPHA", short_name |-> "Alpha"],
      [scheme_code |-> SchemeCodes[2], symbol |-> "BETA", short_name |-> ""]>>

InstrumentMappings ==
    {<<>>, <<InstrumentEntries[1]>>, <<InstrumentEntries[2]>>, InstrumentEntries}

\* the arguments of the summaries of one script run
ReportArgs ==
    [op : {"args"}, pnl_all : PerSchemeTables, extra_deltas : TabDeltas,
     num_days : NumDays, mapping : InstrumentMappings]

\* script line 406: get_all_holdings_(pnl_all)
GetAllHoldings ==
    /\ summary.op = "args"
    /\ summary' = get_all_holdings(summary.pnl_all, summary.mapping)
    /\ UNCHANGED <<ledgerVars, portfolioVars, app, fleetVars>>

\* the absolute summary tab, with the names get_all_holdings gave
CreateSchemeLevelAbsolutePnlSummary ==
    /\ summary.op = "args"
    /\ summary' = create_scheme_level_absolute_pnl_summary(
                      summary.pnl_all,
                      get_all_holdings(summary.pnl_all, summary.mapping)
                          .names_scheme_mapping,
                      summary.num_days)
    /\ UNCHANGED <<ledgerVars, portfolioVars, app, fleetVars>>

\* the relative summary tab, with the names get_all_holdings gave
CreateSchemeLevelRelativePnlSummary ==
    /\ summary.op = "args"
    /\ \E raises \in (IF summary.pnl_all = <<>> THEN BOOLEAN ELSE {FALSE}) :
         summary' = create_scheme_level_relative_pnl_summary(
                        summary.pnl_all,
                        get_all_holdings(summary.pnl_all, summary.mapping)
                            .names_scheme_mapping,
                        summary.extra_deltas, <<>>, raises)
    /\ UNCHANGED <<ledgerVars, portfolioVars, app, fleetVars>>

\* the summary tab: create_summary on the table of the whole portfolio
CreateSummary ==
    /\ summary.op = "args"
    /\ summary' = create_summary(PortfolioTable(summary.pnl_all),
                                 summary.extra_deltas, <<>>)
    /\ UNCHANGED <<ledgerVars, portfolioVars, app, fleetVars>>

SInit ==
    /\ ledger = TrasactionHistory
    /\ ret = NoRet
    /\ holdings = <<>>
    /\ nav_feed = <<>>
    /\ pnl = NoPnl
    /\ out = NoOut
    /\ app = NoApp
    /\ summary \in ReportArgs
    /\ fleet = NoFleet

SNext ==
    \/ GetAllHoldings
    \/ CreateSummary
    \/ CreateSchemeLevelAbsolutePnlSummary
    \/ CreateSchemeLevelRelativePnlSummary

SpecSummary == SInit /\ [][SNext]_vars

\* a summary table was returned
IsSummaryTable == summary.op = "create_summary" /\ ~summary.raised

\* the row of the table handed to create_summary for date d
InputRow(d) ==
    summary.pnl[CHOOSE i \in 1..Len(summary.pnl) : summary.pnl[i].date = d]

\* pnl at the T row less pnl at date d, in 1/AmountScale
ChangeSinceT(d) ==
    InputRow(Max(Range(DateColumn(summary.pnl)))).pnl - InputRow(d).pnl

InvestedAtT == InputRow(Max(Range(DateColumn(summary.pnl)))).total_invested

BuilderInput ==
    IF summary.op = "create_scheme_level_absolute_pnl_summary"
    THEN summary.pnl_all ELSE summary.pnl

IsBuilderCall ==
    summary.op \in {"create_summary",
                    "create_scheme_level_absolute_pnl_summary",
                    "create_scheme_level_relative_pnl_summary"}

\* C22: each of the three report builders, given an empty table, raises
\* nothing and yields an empty report; given a table with exactly one date,
\* it raises nothing and resolves the checkpoints to that date.
C22_EmptyAndSingleDateHandled ==
    IsBuilderCall =>
        /\ BuilderInput = <<>> => (~summary.raised /\ summary.value = <<>>)
        /\ Cardinality(Range(DateColumn(BuilderInput))) = 1 =>
             /\ ~summary.raised
             /\ summary.op = "create_summary" =>
                    /\ Len(summary.value) = 1
                    /\ summary.value[1].date_og \in Range(DateColumn(BuilderInput))
             /\ summary.op = "create_scheme_level_absolute_pnl_summary" =>
                    Range(summary.dates) = Range(DateColumn(BuilderInput))
             /\ summary.op = "create_scheme_level_relative_pnl_summary" =>
                    Range(summary.dates_matched) = Range(DateColumn(BuilderInput))

\* C23: transactions_pnl with percentage=True raises nothing and returns 0
\* when the invested amount of the filtered ledger is 0: an empty ledger, a
\* cutoff before the first transaction, purchases offset by sells.
C23_ZeroInvestedGivesZeroPercentage ==
    (/\ ret.op = "transactions_pnl_percentage"
     /\ CostUpTo(ledger.transaction_history_og, ret.args.max_date) = 0)
        => (~ret.raised /\ ret.value = Num(0))

IsAbsoluteSummary ==
    summary.op = "create_scheme_level_absolute_pnl_summary"

\* the dates and the scheme codes of the table given to the absolute summary
TableDates == Range(DateColumn(summary.pnl_all))
TableSchemes == Range(SchemeColumn(summary.pnl_all))

\* the last n dates of the table
LastDates(n) ==
    {d \in TableDates : Cardinality({e \in TableDates : e > d}) < n}

\* C24: the absolute summary of a table with rows covers exactly the last
\* min(N, number of dates) dates of the table, has one row for every scheme
\* of the table with a pnl and a pnl% cell for each of those dates, holds 0
\* where a scheme has no row of a date, and is ordered descending by the
\* pnl of the most recent date.
C24_AbsoluteSummaryShape ==
    (IsAbsoluteSummary /\ summary.pnl_all # <<>>) =>
        /\ ~summary.raised
        /\ Range(summary.dates) = LastDates(summary.num_days)
        /\ Len(summary.value) = Cardinality(TableSchemes)
        /\ \A s \in TableSchemes :
             \E i \in 1..Len(summary.value) :
                 LET r == summary.value[i]
                 IN  /\ r.scheme = summary.names_scheme_mapping[s]
                     /\ DOMAIN r.pnl = LastDates(summary.num_days)
                     /\ DOMAIN r.pnl_pct = LastDates(summary.num_days)
                     /\ \A d \in LastDates(summary.num_days) :
                            SchemeRowsAt(summary.pnl_all, s, d) = <<>>
                                => (r.pnl[d] = 0 /\ r.pnl_pct[d] = Num(0))
        /\ \A i, j \in 1..Len(summary.value) :
               i < j => summary.value[i].pnl[Max(TableDates)]
                            >= summary.value[j].pnl[Max(TableDates)]

\* the scheme codes with an entry in the instrument mapping
MappedSchemes(mapping) == {mapping[k].scheme_code : k \in 1..Len(mapping)}

\* C25: whatever the number of schemes without an entry in the instrument
\* mapping, get_all_holdings names each of them "Unknown", every scheme code
\* can be reached through the name-to-scheme mapping, and the absolute and
\* the relative summary of a table with rows, built with these names, raise
\* nothing.
C25_UnmappedSchemesNeverFail ==
    /\ summary.op = "get_all_holdings" =>
         /\ \A i \in 1..Len(summary.schemes) :
                summary.schemes[i] \notin MappedSchemes(summary.mapping)
                    => summary.names[i] = "Unknown"
         /\ \A s \in Range(summary.schemes) :
                \E n \in DOMAIN summary.schemes_names_mapping :
                    summary.schemes_names_mapping[n] = s
    /\ (IsAbsoluteSummary /\ summary.pnl_all # <<>>) => ~summary.raised
    /\ (/\ summary.op = "create_scheme_level_relative_pnl_summary"
        /\ summary.pnl # <<>>) => ~summary.raised

----------------------------------------------------------------------------
\* Two Portfolio objects, each built from the ledger record of its own user,
\* with their get_pnl_timeseries() calls running side by side. A step is one
\* pass of the loop over self.holdings (lines 560-564), the concatenation
\* with the assignment of self.pnl (lines 566-567), or the grouping with the
\* return (lines 569-583).

MaxCalls == 2        \* get_pnl_timeseries() calls on one Portfolio

FleetLeg(date, units) == [date |-> date, units |-> units, average_nav |-> 1]

\* a scheme bought once, or bought twice and sold once
FleetRecords(code) ==
    {[scheme_code |-> code, purchase_history |-> <<FleetLeg(1, 1)>>,
      sale_history |-> <<>>],
     [scheme_code |-> code,
      purchase_history |-> <<FleetLeg(1, 1), FleetLeg(2, 2)>>,
      sale_history |-> <<FleetLeg(2, 1)>>]}

\* the ledger records of a user: no scheme, one scheme or two
FleetTranscations ==
    {<<>>}
    \cup {<<a>> : a \in FleetRecords(SchemeCodes[1])}
    \cup {<<a, b>> : a \in FleetRecords(SchemeCodes[1]),
                     b \in FleetRecords(SchemeCodes[2])}

\* Portfolio(transcations=transcations), not yet called; frame holds the
\* locals of a running get_pnl_timeseries() call. transcations, calls and
\* overlapped are bookkeeping of the model: what the object was built from,
\* the calls it has finished, and whether a step of its last call was taken
\* while the other object was inside a call.
FleetPortfolio(transcations) ==
    [transcations |-> transcations,
     holdings |-> create_holdings(transcations),
     pnl |-> NoPnl,
     frame |-> [pc |-> "idle", k |-> 0, pnls |-> <<>>],
     out |-> NoOut,
     calls |-> 0,
     overlapped |-> FALSE]

\* the call begins: pnls = []
BeginCall(self) ==
    [self EXCEPT !.frame = [pc |-> "loop", k |-> 1, pnls |-> <<>>],
                 !.overlapped = FALSE]

\* one pass of the loop: the holding's own timeseries, tagged and appended
LoopThen(self, r) ==
    [self EXCEPT
        !.holdings[self.frame.k] = r.self,
        !.frame.pnls =
            Append(@, TagRows(r.value, self.holdings[self.frame.k].scheme_code)),
        !.frame.k = @ + 1]

LoopStep(self, feed) ==
    LoopThen(self,
             Holding_get_pnl_timeseries(
                 self.holdings[self.frame.k],
                 feed[self.holdings[self.frame.k].scheme_code]))

\* mutant: the table is stored on the class, where every Portfolio reads it
StoreCache_on_class(f, i, table) ==
    [j \in DOMAIN f |-> [f[j] EXCEPT !.pnl = [set |-> TRUE, rows |-> table]]]

\* self.pnl = pnl
StoreCache(f, i, table) ==
    [f EXCEPT ![i].pnl = [set |-> TRUE, rows |-> table]]

\* the call ends, with a table or with the ValueError of pd.concat
EndCall(self, raised, table) ==
    [self EXCEPT !.frame = [pc |-> "idle", k |-> 0, pnls |-> <<>>],
                 !.out = [op |-> "Portfolio.get_pnl_timeseries",
                          raised |-> raised, table |-> table],
                 !.calls = @ + 1]

Busy(self) == self.frame.pc # "idle"

\* a step of object i was taken; it overlaps when the other is inside a call
Stepped(f, i) ==
    [f EXCEPT ![i].overlapped = @ \/ \E j \in DOMAIN f : j # i /\ Busy(f[j])]

FleetBegin(i) ==
    /\ fleet[i].frame.pc = "idle"
    /\ fleet[i].calls < MaxCalls
    /\ fleet' = Stepped([fleet EXCEPT ![i] = BeginCall(@)], i)
    /\ UNCHANGED <<ledgerVars, holdings, pnl, out, nav_feed, reportVars>>

FleetLoop(i) ==
    /\ fleet[i].frame.pc = "loop"
    /\ fleet[i].frame.k <= Len(fleet[i].holdings)
    /\ fleet' = Stepped([fleet EXCEPT ![i] = LoopStep(@, nav_feed)], i)
    /\ UNCHANGED <<ledgerVars, holdings, pnl, out, nav_feed, reportVars>>

FleetConcat(i) ==
    /\ fleet[i].frame.pc = "loop"
    /\ fleet[i].frame.k > Len(fleet[i].holdings)
    /\ fleet' = IF fleet[i].frame.pnls = <<>>
                THEN Stepped([fleet EXCEPT ![i] = EndCall(@, TRUE, <<>>)], i)
                ELSE Stepped([StoreCache(fleet, i, concat(fleet[i].frame.pnls))
                                 EXCEPT ![i].frame.pc = "group"], i)
    /\ UNCHANGED <<ledgerVars, holdings, pnl, out, nav_feed, reportVars>>

FleetGroup(i) ==
    /\ fleet[i].frame.pc = "group"
    /\ fleet' = Stepped([fleet EXCEPT ![i] =
                            EndCall(@, FALSE,
                                    PortfolioTable(concat(fleet[i].frame.pnls)))],
                        i)
    /\ UNCHANGED <<ledgerVars, holdings, pnl, out, nav_feed, reportVars>>

FInit ==
    /\ ledger = TrasactionHistory
    /\ ret = NoRet
    /\ holdings = <<>>
    /\ nav_feed \in Feeds(2)
    /\ pnl = NoPnl
    /\ out = NoOut
    /\ app = NoApp
    /\ summary = NoSummary
    /\ fleet \in {<<FleetPortfolio(a), FleetPortfolio(b)>> :
                     a \in FleetTranscations, b \in FleetTranscations}

FNext ==
    \E i \in 1..2 :
        \/ FleetBegin(i)
        \/ FleetLoop(i)
        \/ FleetConcat(i)
        \/ FleetGroup(i)

SpecFleet == FInit /\ [][FNext]_vars

\* a Portfolio after n calls made with no other object around
RECURSIVE Alone(_, _, _)
AloneThen(r, n, feed) ==
    IF n = 1 THEN r
    ELSE Alone([holdings |-> r.holdings, pnl |-> r.pnl], n - 1, feed)
Alone(self, n, feed) ==
    AloneThen(Portfolio_get_pnl_timeseries(self.holdings, self.pnl, feed),
              n, feed)

\* C26: two Portfolio objects built from separate ledger records share no
\* state: however the steps of their get_pnl_timeseries() calls interleave,
\* every finished call of either returns the table, and leaves the
\* portfolio.pnl, that the same calls give on an object that runs alone.
C26_InterleavingChangesNothing ==
    \A i \in DOMAIN fleet :
        (fleet[i].frame.pc = "idle" /\ fleet[i].calls > 0) =>
            LET alone == Alone([holdings |-> create_holdings(fleet[i].transcations),
                                pnl |-> NoPnl],
                               fleet[i].calls, nav_feed)
            IN  /\ fleet[i].out.raised = alone.raised
                /\ fleet[i].out.table = alone.value
                /\ fleet[i].pnl = alone.pnl
                /\ fleet[i].holdings = alone.holdings

\* both objects have finished a call whose steps overlapped with a call of
\* the other, each returned rows, and their tables differ
C26_Witness ==
    /\ fleet # <<>>
    /\ \A i \in DOMAIN fleet :
           /\ fleet[i].frame.pc = "idle"
           /\ fleet[i].calls > 0
           /\ fleet[i].overlapped
           /\ fleet[i].out.table # <<>>
    /\ fleet[1].out.table # fleet[2].out.table
    /\ fleet[1].pnl # fleet[2].pnl

----------------------------------------------------------------------------
\* One Holding, built from a scheme record, and further create_transactions
\* calls on it

\* the legs one call can add: none or one of a side
NewLegs == {<<>>} \cup {<<l>> : l \in Legs}

\* holding.create_transactions(purchase_transactions, sell_transactions,
\* max_date), while the holding has room for the legs
CreateTransactions ==
    \E purchase_transactions \in NewLegs, sell_transactions \in NewLegs,
       max_date \in Cutoffs :
        /\ Len(holdings[1].all_transactions.transaction_history_og)
               + Len(purchase_transactions) + Len(sell_transactions) <= MaxLegs
        /\ holdings' = <<create_transactions(holdings[1], purchase_transactions,
                                             sell_transactions, max_date)>>
        /\ out' = [op |-> "Holding.create_transactions", raised |-> FALSE,
                   table |-> <<>>]
        /\ UNCHANGED <<nav_feed, pnl, ledgerVars, reportVars, fleetVars>>

HInit ==
    /\ ledger = TrasactionHistory
    /\ ret = NoRet
    /\ holdings \in {<<Holding(r)>> :
                        r \in UNION {SchemeRecords(SchemeCodes[1], n) :
                                        n \in 0..MaxLegs}}
    /\ nav_feed = <<>>
    /\ pnl = NoPnl
    /\ out = NoOut
    /\ app = NoApp
    /\ summary = NoSummary
    /\ fleet = NoFleet

HNext ==
    \/ CreateTransactions

SpecHolding == HInit /\ [][HNext]_vars

\* the number of times x is in a list
CountIn(x, list) == Cardinality({i \in 1..Len(list) : list[i] = x})

\* C27: after every create_transactions call, the one of the constructor
\* and every later one, all_transactions holds the transactions of
\* purchase_history and of sell_history, each as often as they hold it, its
\* length is the sum of their lengths, and it is ascending by date.
C27_AllTransactionsMergedAscending ==
    \A i \in 1..Len(holdings) :
        LET h == holdings[i]
            all == transaction_history(h.all_transactions)
            both == transaction_history(h.purchase_history)
                        \o transaction_history(h.sell_history)
        IN  /\ \A x \in Range(all) \cup Range(both) :
                   CountIn(x, all) = CountIn(x, both)
            /\ len(h.all_transactions)
                   = len(h.purchase_history) + len(h.sell_history)
            /\ \A j, k \in 1..Len(all) : j < k => all[j].date_ <= all[k].date_

IsRelativeSummary ==
    /\ summary.op = "create_scheme_level_relative_pnl_summary"
    /\ summary.pnl # <<>>

\* the pnl of a scheme on a date of the table given to the relative summary
SchemePnl(s, d) == GroupSum(summary.pnl, s, d, "pnl")

\* C28: in the relative summary of a per-scheme table (one scheme's series
\* after the other's), T resolves to the maximum date of the table and every
\* other checkpoint to the latest date on or before its target that is not
\* taken, and the change of a scheme at a checkpoint date is its pnl at T
\* less its pnl at that date (shown as a whole number), for every scheme
\* with a row on both dates.
C28_RelativeSummaryOverPerSchemeTable ==
    IsRelativeSummary =>
        /\ ~summary.raised
        /\ summary.dates_matched
               = LatestUnused(summary.dates_to_use, SeriesDates, <<>>)
        /\ \A i \in 1..Len(summary.value) :
             \A s \in Range(SchemeColumn(summary.pnl)) :
                (/\ SchemeRowsAt(summary.pnl, s, Max(SeriesDates)) # <<>>
                 /\ SchemeRowsAt(summary.pnl, s, summary.value[i].Date) # <<>>)
                    => /\ s \in DOMAIN summary.value[i].change_in_pnl
                       /\ summary.value[i].change_in_pnl[s]
                              = astype_int(SchemePnl(s, Max(SeriesDates))
                                    - SchemePnl(s, summary.value[i].Date))

\* C29: in the names create_dates_and_filtered_df gives the checkpoints,
\* the j-th extra delta has the j-th supplied name when there is one and
\* "Last d Days" with its own d otherwise, also when only the first few
\* extra deltas are named.
C29_UnnamedDeltasCarryOwnDays ==
    summary.op = "create_dates_and_filtered_df" =>
        \A j \in 1..Len(summary.extra_deltas) :
            summary.names[Len(date_names) + j]
                = IF j <= Len(summary.extra_names) THEN summary.extra_names[j]
                  ELSE "Last " \o ToString(summary.extra_deltas[j]) \o " Days"

----------------------------------------------------------------------------
\* The portfolio total of a date against the positions held on that date

\* the invested amount of holding k as of date d: the amount at the latest
\* transaction date on or before d, counted only when it is positive
AsOfInvested(k, d) ==
    LET h == holdings[k]
        ds == DatesUpTo(h, d)
        v == IF ds = {} THEN 0
             ELSE net_transaction_value(h.all_transactions, Max(ds)).value.num
    IN  IF v > 0 THEN v ELSE 0

\* C30: for every date d of the table Portfolio.get_pnl_timeseries returned,
\* total_invested(d) is the sum, over all holdings with a positive invested
\* amount as of d, of that amount: no holding is left out of a date because
\* its own NAV series has no entry for that date.
C30_NoHoldingLeftOut ==
    out.op = "Portfolio.get_pnl_timeseries" =>
        \A i \in 1..Len(out.table) :
            out.table[i].total_invested =
                SumOver([k \in 1..Len(holdings) |->
                             AsOfInvested(k, out.table[i].date)],
                        1..Len(holdings))

============================================================================
